---- MODULE Spec2Model ----
(***************************************************************************)
(* Model of the CLI-driven node-interaction layer of the integration tests *)
(* (src/integration_tests/utils.py): argument building, the Command        *)
(* driver and its default options, the process executor, the polling       *)
(* primitives and the transaction-response decoder.                        *)
(*                                                                         *)
(* Python strings are sequences of one-character strings, so that str(),   *)
(* split(), strip() and replace() are computed and not assumed.            *)
(***************************************************************************)
EXTENDS Integers, Sequences, FiniteSets, TLC

\* ------------------------------------------------------------------------
\* Bounds of the model
\* ------------------------------------------------------------------------
MaxLen == 3
MaxArgs == 2
MaxKw == 2
MaxAttrs == 2
MaxEvents == 2
MaxMsgs == 2
MaxHeight == 3
MaxTimeout == 2
MaxN == 2
MaxPolls == 3
MaxSpawns == 3
MaxPortTimeout == 5

\* ------------------------------------------------------------------------
\* Python values: None, int, str
\* ------------------------------------------------------------------------
None == [t |-> "none"]
PyStr(s) == [t |-> "str", s |-> s]
PyInt(n) == [t |-> "int", n |-> n]
PyList(l) == [t |-> "list", l |-> l]

RECURSIVE Digits(_)
Digits(n) == IF n < 10 THEN <<ToString(n)>>
             ELSE Digits(n \div 10) \o <<ToString(n % 10)>>

\* str(v)
str(v) == IF v.t = "str" THEN v.s
          ELSE IF v.t = "int" THEN Digits(v.n)
          ELSE <<"N", "o", "n", "e">>

\* truth value of v, as tested by "if arg"
Truthy(v) == IF v.t = "str" THEN v.s # <<>>
             ELSE IF v.t = "int" THEN v.n # 0
             ELSE FALSE

Whitespace == {" ", "\t", "\n"}

\* s.split(): the maximal runs of non-whitespace characters of s
RECURSIVE SplitFrom(_, _, _)
SplitFrom(s, i, word) ==
    IF i > Len(s)
    THEN IF word = <<>> THEN <<>> ELSE <<word>>
    ELSE IF s[i] \in Whitespace
         THEN IF word = <<>> THEN SplitFrom(s, i + 1, <<>>)
              ELSE <<word>> \o SplitFrom(s, i + 1, <<>>)
         ELSE SplitFrom(s, i + 1, Append(word, s[i]))

split(s) == SplitFrom(s, 1, <<>>)

Quote(s) == <<"'">> \o s \o <<"'">>

\* safe_cli_string(s), s a Python value
safe_cli_string(v) ==
    LET s == str(v)
    IN  IF Len(split(s)) > 1 THEN Quote(s) ELSE s

\* k.strip("_")
RECURSIVE LStrip(_)
LStrip(s) == IF s # <<>> /\ Head(s) = "_" THEN LStrip(Tail(s)) ELSE s

RECURSIVE RStrip(_)
RStrip(s) == IF s # <<>> /\ s[Len(s)] = "_"
             THEN RStrip(SubSeq(s, 1, Len(s) - 1)) ELSE s

strip(s) == RStrip(LStrip(s))

\* s.replace("_", "-")
replace(s) == [i \in 1..Len(s) |-> IF s[i] = "_" THEN "-" ELSE s[i]]

\* "--" + k.strip("_").replace("_", "-")
FlagToken(k) == <<"-", "-">> \o replace(strip(k))

\* the loop over kwargs.items() of build_cli_args_safe; kwargs is the
\* dict as the sequence of its items in insertion order
RECURSIVE FlagTokensNoSkip(_)
FlagTokensNoSkip(kwargs) ==
    IF kwargs = <<>> THEN <<>>
    ELSE <<FlagToken(Head(kwargs).k), safe_cli_string(Head(kwargs).v)>>
         \o FlagTokensNoSkip(Tail(kwargs))

RECURSIVE FlagTokens(_)
FlagTokens(kwargs) ==
    IF kwargs = <<>> THEN <<>>
    ELSE LET kv == Head(kwargs)
         IN  IF kv.v = None THEN FlagTokens(Tail(kwargs))
             ELSE <<FlagToken(kv.k), safe_cli_string(kv.v)>>
                  \o FlagTokens(Tail(kwargs))

\* [safe_cli_string(arg) for arg in args if arg]
PositionalTokens(args) ==
    LET kept == SelectSeq(args, Truthy)
    IN  [i \in 1..Len(kept) |-> safe_cli_string(kept[i])]

build_cli_args_safe(args, kwargs) == PositionalTokens(args) \o FlagTokens(kwargs)

\* ------------------------------------------------------------------------
\* Command: the driver identity and the default options of __call__
\* ------------------------------------------------------------------------
K_home == <<"h", "o", "m", "e">>
K_node == <<"n", "o", "d", "e">>
K_chain_id == <<"c", "h", "a", "i", "n", "_", "i", "d">>
K_keyring_backend == <<"k", "e", "y", "r", "i", "n", "g", "_", "b", "a", "c", "k", "e", "n", "d">>
K_output == <<"o", "u", "t", "p", "u", "t">>
K_from_ == <<"f", "r", "o", "m", "_">>
K_gas == <<"g", "a", "s">>

S_tx == <<"t", "x">>
S_status == <<"s", "t", "a", "t", "u", "s">>
S_query == <<"q", "u", "e", "r", "y">>
S_keys == <<"k", "e", "y", "s">>
S_version == <<"v", "e", "r", "s", "i", "o", "n">>
S_test == <<"t", "e", "s", "t">>
S_json == <<"j", "s", "o", "n">>

\* Command(cmd, home, node, chain_id) as constructed by the cluster fixture
\* (the values are shortened, none holds whitespace)
self == [cmd      |-> <<"w", "a", "s", "m", "d">>,
         home     |-> PyStr(<<"/", "n", "0">>),
         node     |-> PyStr(<<"t", "c", "p", ":", "7">>),
         chain_id |-> PyStr(<<"c", "m", "d">>)]

HasKey(kwargs, k) == \E i \in 1..Len(kwargs) : kwargs[i].k = k

\* kwargs[k]
Get(kwargs, k) == kwargs[CHOOSE i \in 1..Len(kwargs) : kwargs[i].k = k].v

\* kwargs.setdefault(k, v)
setdefault(kwargs, k, v) ==
    IF HasKey(kwargs, k) THEN kwargs ELSE Append(kwargs, [k |-> k, v |-> v])

\* kwargs[k] = v
setitem(kwargs, k, v) ==
    IF HasKey(kwargs, k)
    THEN [i \in 1..Len(kwargs) |->
             IF kwargs[i].k = k THEN [k |-> k, v |-> v] ELSE kwargs[i]]
    ELSE Append(kwargs, [k |-> k, v |-> v])

ApplyDefaultsOverwrite(cmd, kwargs) ==
    LET k1 == setdefault(kwargs, K_home, self.home)
        k2 == IF cmd \in {S_tx, S_status, S_query}
              THEN setitem(k1, K_node, self.node) ELSE k1
        k3 == IF cmd = S_tx THEN setdefault(k2, K_chain_id, self.chain_id) ELSE k2
        k4 == IF cmd \in {S_tx, S_keys}
              THEN setdefault(k3, K_keyring_backend, PyStr(S_test)) ELSE k3
        k5 == IF cmd \in {S_query} THEN setdefault(k4, K_output, PyStr(S_json)) ELSE k4
    IN  k5

\* the setdefault calls of Command.__call__
ApplyDefaults(cmd, kwargs) ==
    LET k1 == setdefault(kwargs, K_home, self.home)
        k2 == IF cmd \in {S_tx, S_status, S_query}
              THEN setdefault(k1, K_node, self.node) ELSE k1
        k3 == IF cmd = S_tx THEN setdefault(k2, K_chain_id, self.chain_id) ELSE k2
        k4 == IF cmd \in {S_tx, S_keys}
              THEN setdefault(k3, K_keyring_backend, PyStr(S_test)) ELSE k3
        k5 == IF cmd \in {S_query} THEN setdefault(k4, K_output, PyStr(S_json)) ELSE k4
    IN  k5

\* " ".join(tokens)
RECURSIVE join(_)
join(tokens) ==
    IF tokens = <<>> THEN <<>>
    ELSE IF Len(tokens) = 1 THEN Head(tokens)
    ELSE Head(tokens) \o <<" ">> \o join(Tail(tokens))

\* f"{self.cmd} {args}": the command line handed to interact
CommandLine(cmd, args, kwargs) ==
    self.cmd \o <<" ">> \o join(build_cli_args_safe(<<PyStr(cmd)>> \o args, kwargs))

\* ------------------------------------------------------------------------
\* Response decoder
\*
\* A Python dict is a function from its keys.  The text of raw_log is kept
\* as what it encodes: [json |-> TRUE, value |-> v] is the JSON text of v,
\* [json |-> FALSE, text |-> t] is a plain diagnostic that is no JSON.
\* ------------------------------------------------------------------------
JsonText(v) == [json |-> TRUE, value |-> v]
PlainText(t) == [json |-> FALSE, text |-> t]

Ok(v) == [ok |-> TRUE, val |-> v]
Raise(e, m) == [ok |-> FALSE, err |-> e, msg |-> m]

\* json.loads(text)
json_loads(text) ==
    IF text.json THEN Ok(text.value) ELSE Raise("JSONDecodeError", text.text)

EmptyDict == [k \in {} |-> ""]

\* {attr["key"]: attr["value"] for attr in attrs}
RECURSIVE AttrDict(_)
AttrDict(attrs) ==
    IF attrs = <<>> THEN EmptyDict
    ELSE LET d == AttrDict(SubSeq(attrs, 1, Len(attrs) - 1))
             a == attrs[Len(attrs)]
         IN  [k \in DOMAIN d \cup {a.key} |-> IF k = a.key THEN a.value ELSE d[k]]

parse_events_last_message(rsp) ==
    LET log == json_loads(rsp.raw_log)
    IN  IF ~log.ok THEN log
        ELSE IF log.val = <<>> THEN Raise("IndexError", [what |-> "list index out of range"])
        ELSE LET evts == log.val[Len(log.val)].events
             IN  Ok([i \in 1..Len(evts) |-> AttrDict(evts[i].attributes)])

\* parse_events(rsp)
parse_events(rsp) ==
    LET log == json_loads(rsp.raw_log)
    IN  IF ~log.ok THEN log
        ELSE IF log.val = <<>> THEN Raise("IndexError", [what |-> "list index out of range"])
        ELSE LET evts == log.val[1].events
             IN  Ok([i \in 1..Len(evts) |-> AttrDict(evts[i].attributes)])

\* Response.events
events(rsp) == parse_events(rsp)

\* Response.code
code(rsp) == IF "code" \in DOMAIN rsp THEN rsp.code ELSE 0

\* ------------------------------------------------------------------------
\* State
\* ------------------------------------------------------------------------
VARIABLES
    a_fn,       \* which function the argument specification applies
    a_cmd,      \* subcommand given to __call__
    a_args,     \* positional arguments (*args)
    a_kwargs,   \* keyword options (**kwargs) as given by the caller
    a_merged,   \* kwargs after the defaults of __call__
    a_tokens,   \* result of build_cli_args_safe
    a_line,     \* command line handed to interact
    a_done      \* the function has returned

argVars == <<a_fn, a_cmd, a_args, a_kwargs, a_merged, a_tokens, a_line, a_done>>

VARIABLES
    r_rsp,      \* a Response: the decoded JSON object of a transaction result
    r_events,   \* what Response.events returned (or the error it raised)
    r_code,     \* what Response.code returned
    r_done      \* the properties have been read

rspVars == <<r_rsp, r_events, r_code, r_done>>

VARIABLES
    op,                 \* the driver operation the test scenario called ("idle": none)
    frame,              \* the method that makes the current CLI call
    at,                 \* the statement of the operation the call is made from
    pc,                 \* "idle", "call" (before Popen), "communicate", "ret", "done"
    proc,               \* the child process: "none" or "running"
    returncode,         \* proc.returncode of the last child
    stdout,             \* captured output of the last child
    spawns,             \* children spawned by the current operation (up to MaxSpawns)
    polls,              \* status calls completed by the current operation (up to MaxPolls)
    height,             \* the node's latest block height
    latest_block_time,  \* the node's latest block time
    wait_n,                  \* argument n of wait_for_block / wait_for_new_blocks
    wait_timeout,            \* argument timeout of wait_for_block
    wait_t,                  \* argument t of wait_for_block_time
    wait_i,                  \* loop variable of wait_for_block
    begin_height,       \* wait_for_new_blocks
    cur_height,         \* height decoded from the last status
    now,                \* block time decoded from the last status
    tx_rsp,                \* the Response of the current transaction
    rawLogParsed,       \* json.loads(rsp["raw_log"]) was executed on rsp
    code_id,            \* construct: what store returned
    result              \* what the operation returned or raised

nodeVars == <<height, latest_block_time>>

drvVars == <<op, frame, at, pc, proc, returncode, stdout, spawns, polls,
             wait_n, wait_timeout, wait_t, wait_i, begin_height, cur_height, now, tx_rsp, rawLogParsed,
             code_id, result>>

VARIABLES
    p_open,     \* the port accepts connections
    p_timeout,  \* argument timeout of wait_for_port, in ticks of 0.1 s
    p_start,    \* start_time
    p_now,      \* time.perf_counter(), in ticks of 0.1 s
    p_pc,       \* "idle", "connect", "except", "done"
    p_result    \* what wait_for_port returned or raised

portVars == <<p_open, p_timeout, p_start, p_now, p_pc, p_result>>

vars == <<argVars, rspVars, nodeVars, drvVars, portVars>>

OutOfGas == PlainText(<<"o", "u", "t", " ", "o", "f", " ", "g", "a", "s">>)

NoMessage == [what |-> "none"]

NotRead == Raise("NotRead", NoMessage)

RspIdle ==
    /\ r_rsp = [raw_log |-> OutOfGas] /\ r_events = NotRead /\ r_code = 0
    /\ r_done = "no"

NoOutput == PlainText(<<>>)
NoResponse == [raw_log |-> NoOutput]
NoResult == Raise("Running", NoMessage)

DrvIdle ==
    /\ op = "idle" /\ frame = "" /\ at = "" /\ pc = "idle" /\ proc = "none"
    /\ returncode = 0 /\ stdout = NoOutput /\ spawns = 0 /\ polls = 0
    /\ wait_n = 0 /\ wait_timeout = 0 /\ wait_t = 0 /\ wait_i = 0
    /\ begin_height = 0 /\ cur_height = 0 /\ now = 0
    /\ tx_rsp = NoResponse /\ rawLogParsed = FALSE /\ code_id = 0
    /\ result = NoResult

NodeIdle == height = 0 /\ latest_block_time = 0

PortIdle ==
    /\ p_open = FALSE /\ p_timeout = 0 /\ p_start = 0 /\ p_now = 0
    /\ p_pc = "idle" /\ p_result = NoResult

\* ------------------------------------------------------------------------
\* Inputs of the argument specification
\* ------------------------------------------------------------------------
Chars == {"a", " "}

RECURSIVE SeqsUpTo(_, _)
SeqsUpTo(S, n) ==
    IF n = 0 THEN {<<>>}
    ELSE LET prev == SeqsUpTo(S, n - 1)
         IN  prev \cup {Append(q, x) : q \in {p \in prev : Len(p) = n - 1}, x \in S}

Strings == SeqsUpTo(Chars, MaxLen)

TabString == <<"a", "\t", "a">>

ArgValues == {PyStr(s) : s \in Strings} \cup {PyStr(TabString), None, PyInt(0), PyInt(7)}

BuildKeys == {K_from_, K_chain_id}
BuildValues == {None, PyInt(7), PyStr(<<"a", " ", "a">>)}

CallKeys == {K_home, K_node, K_chain_id, K_keyring_backend, K_output, K_from_}
CallValues == {None, PyStr(<<"u">>)}

Subcommands == {S_tx, S_status, S_query, S_keys, S_version}

DistinctKeys(kw) == \A i, j \in 1..Len(kw) : i # j => kw[i].k # kw[j].k

Dicts(keys, values) ==
    {kw \in SeqsUpTo({[k |-> k, v |-> v] : k \in keys, v \in values}, MaxKw) :
        DistinctKeys(kw)}

ArgsIdle ==
    /\ a_fn = "none" /\ a_cmd = <<>> /\ a_args = <<>> /\ a_kwargs = <<>>
    /\ a_merged = <<>> /\ a_tokens = <<>> /\ a_line = <<>> /\ a_done = FALSE

InitArgs ==
    /\ RspIdle /\ DrvIdle /\ NodeIdle /\ PortIdle
    /\ a_merged = <<>> /\ a_tokens = <<>> /\ a_line = <<>> /\ a_done = FALSE
    /\ \/ /\ a_fn = "build_cli_args_safe"
          /\ a_cmd = <<>>
          /\ a_args \in SeqsUpTo(ArgValues, MaxArgs)
          /\ a_kwargs \in Dicts(BuildKeys, BuildValues)
       \/ /\ a_fn = "__call__"
          /\ a_cmd \in Subcommands
          /\ a_args \in {<<>>, <<PyStr(<<"a">>), PyStr(<<"-", "a">>)>>}
          /\ a_kwargs \in Dicts(CallKeys, CallValues)

\* build_cli_args_safe(*a_args, **a_kwargs)
BuildCliArgsSafe ==
    /\ a_fn = "build_cli_args_safe" /\ ~a_done
    /\ a_tokens' = build_cli_args_safe(a_args, a_kwargs)
    /\ a_done' = TRUE
    /\ UNCHANGED <<a_fn, a_cmd, a_args, a_kwargs, a_merged, a_line>>
    /\ UNCHANGED <<rspVars, nodeVars, drvVars, portVars>>

\* Command.__call__(a_cmd, *a_args, **a_kwargs), up to the call of interact
Call ==
    /\ a_fn = "__call__" /\ ~a_done
    /\ a_merged' = ApplyDefaults(a_cmd, a_kwargs)
    /\ a_tokens' = build_cli_args_safe(<<PyStr(a_cmd)>> \o a_args, a_merged')
    /\ a_line' = CommandLine(a_cmd, a_args, a_merged')
    /\ a_done' = TRUE
    /\ UNCHANGED <<a_fn, a_cmd, a_args, a_kwargs>>
    /\ UNCHANGED <<rspVars, nodeVars, drvVars, portVars>>

NextArgs == BuildCliArgsSafe \/ Call

SpecArgs == InitArgs /\ [][NextArgs]_vars

\* ------------------------------------------------------------------------
\* The Command driver against a running node
\* ------------------------------------------------------------------------

\* int(s) of a string of decimal digits
DigitValue(c) == CHOOSE d \in 0..9 : ToString(d) = c

RECURSIVE int(_)
int(s) == IF s = <<>> THEN 0
          ELSE 10 * int(SubSeq(s, 1, Len(s) - 1)) + DigitValue(s[Len(s)])

\* bytes.strip().decode()
RECURSIVE lstrip_ws(_)
lstrip_ws(s) == IF s # <<>> /\ Head(s) \in Whitespace THEN lstrip_ws(Tail(s)) ELSE s

RECURSIVE rstrip_ws(_)
rstrip_ws(s) == IF s # <<>> /\ s[Len(s)] \in Whitespace
                THEN rstrip_ws(SubSeq(s, 1, Len(s) - 1)) ELSE s

strip_ws(s) == rstrip_ws(lstrip_ws(s))

\* what the node's CLI prints on success, per call
StatusOutput ==
    JsonText([SyncInfo |-> [latest_block_height |-> Digits(height),
                            latest_block_time |-> Digits(latest_block_time)]])

Event(type, key, value) ==
    [type |-> type, attributes |-> <<[key |-> key, value |-> value]>>]

TxFailed == [code |-> 5, raw_log |-> OutOfGas]

StoreLog == JsonText(<<[events |-> <<Event("message", "code_id", <<"7">>)>>]>>)

InstantiateLog ==
    JsonText(<<[events |-> <<Event("message", "contract_address", <<"c", "1">>)>>]>>)

ExecuteLog ==
    JsonText(<<[events |-> <<Event("message", "action", <<"e">>),
                             Event("wasm", "action", <<"b">>)>>],
               [events |-> <<Event("message", "action", <<"x">>)>>]>>)

TxOutputs(log) ==
    {JsonText([code |-> 0, raw_log |-> log]), JsonText([raw_log |-> log]),
     JsonText(TxFailed)}

Outputs(f) ==
    CASE f = "status" -> {StatusOutput}
      [] f = "store" -> TxOutputs(StoreLog)
      [] f = "instantiate" -> TxOutputs(InstantiateLog)
      [] f = "execute" -> TxOutputs(ExecuteLog)
      [] f = "address" -> {PlainText(<<"c", "0", "\n">>)}
      [] f = "balances" ->
           {JsonText([balances |-> <<[denom |-> "ucosm", amount |-> <<"9">>]>>])}
      [] f = "query" -> {JsonText([data |-> PyStr(<<"d">>)])}
      [] f = "invoke" -> {PlainText(<<"o", "k">>)}

ErrorOutput == PlainText(<<"E", "r", "r", "o", "r">>)

\* the command line of the call made by method f
Cmd(f) ==
    CASE f = "status" -> <<"wasmd", "status">>
      [] f = "store" -> <<"wasmd", "tx", "wasm", "store">>
      [] f = "instantiate" -> <<"wasmd", "tx", "wasm", "instantiate">>
      [] f = "execute" -> <<"wasmd", "tx", "wasm", "execute">>
      [] f = "address" -> <<"wasmd", "keys", "show">>
      [] f = "balances" -> <<"wasmd", "query", "bank", "balances">>
      [] f = "query" -> <<"wasmd", "query", "wasm", "contract-state", "smart">>
      [] f = "invoke" -> <<"wasmd", at>>

ProcessError(f) == Raise("AssertionError", [output |-> ErrorOutput, cmd |-> Cmd(f)])

Init == ArgsIdle /\ RspIdle /\ DrvIdle /\ NodeIdle /\ PortIdle

\* the node produces a block
NewBlock ==
    /\ height < MaxHeight
    /\ height' = height + 1
    /\ latest_block_time' = latest_block_time + 1
    /\ UNCHANGED <<argVars, rspVars, drvVars, portVars>>

waitVars == <<wait_n, wait_timeout, wait_t, wait_i>>
callVars == <<proc, returncode, stdout, spawns, polls, begin_height, cur_height,
              now, tx_rsp, rawLogParsed, code_id>>

\* a test scenario calls method o, whose first CLI call is made by method f
Start(o, f, a) ==
    /\ pc = "idle"
    /\ op' = o /\ frame' = f /\ at' = a /\ pc' = "call"
    /\ UNCHANGED <<callVars, result, argVars, rspVars, nodeVars, portVars>>

CallInvoke == \E c \in {"tx", "query", "status", "keys"} :
    Start("invoke", "invoke", c) /\ UNCHANGED waitVars

CallStatus == Start("status", "status", "") /\ UNCHANGED waitVars
CallAddress == Start("address", "address", "") /\ UNCHANGED waitVars
CallBalances == Start("balances", "balances", "") /\ UNCHANGED waitVars
CallStore == Start("store", "store", "") /\ UNCHANGED waitVars
CallInstantiate == Start("instantiate", "instantiate", "") /\ UNCHANGED waitVars
CallConstruct == Start("construct", "store", "") /\ UNCHANGED waitVars
CallExecute == Start("execute", "execute", "") /\ UNCHANGED waitVars
CallQuery == Start("query", "query", "") /\ UNCHANGED waitVars

TimeoutError(k) == Raise("TimeoutError", [what |-> "wait for block", n |-> k])

\* wait_for_block(k, to): "for i in range(timeout)" runs no iteration when
\* timeout is 0 and the else branch raises at once
CallWaitForBlock == \E k \in 0..(MaxHeight + 1), to \in 0..MaxTimeout :
    /\ pc = "idle"
    /\ op' = "wait_for_block" /\ frame' = "status" /\ at' = "for"
    /\ wait_n' = k /\ wait_timeout' = to /\ wait_i' = 0
    /\ IF to = 0
       THEN pc' = "done" /\ result' = TimeoutError(k)
       ELSE pc' = "call" /\ UNCHANGED result
    /\ UNCHANGED <<wait_t, callVars, argVars, rspVars, nodeVars, portVars>>

CallWaitForNewBlocks == \E k \in (-1)..MaxN :
    /\ Start("wait_for_new_blocks", "status", "begin_height")
    /\ wait_n' = k
    /\ UNCHANGED <<wait_timeout, wait_t, wait_i>>

CallWaitForBlockTime == \E k \in 0..(MaxHeight + 1) :
    /\ Start("wait_for_block_time", "status", "while")
    /\ wait_t' = k
    /\ UNCHANGED <<wait_n, wait_timeout, wait_i>>

\* interact: subprocess.Popen(cmd, ...)
Popen ==
    /\ pc = "call"
    /\ proc' = "running"
    /\ spawns' = IF spawns < MaxSpawns THEN spawns + 1 ELSE spawns
    /\ pc' = "communicate"
    /\ UNCHANGED <<op, frame, at, returncode, stdout, polls, waitVars, begin_height,
                   cur_height, now, tx_rsp, rawLogParsed, code_id, result>>
    /\ UNCHANGED <<argVars, rspVars, nodeVars, portVars>>

CommunicateRetries == \E rc \in {0, 1} :
    /\ pc = "communicate" /\ proc = "running"
    /\ proc' = "none"
    /\ returncode' = rc
    /\ IF rc # 0
       THEN /\ stdout' = ErrorOutput
            /\ IF spawns < 2
               THEN pc' = "call" /\ UNCHANGED result
               ELSE pc' = "done" /\ result' = ProcessError(frame)
       ELSE /\ stdout' \in Outputs(frame)
            /\ pc' = "ret"
            /\ UNCHANGED result
    /\ UNCHANGED <<op, frame, at, spawns, polls, waitVars, begin_height,
                   cur_height, now, tx_rsp, rawLogParsed, code_id>>
    /\ UNCHANGED <<argVars, rspVars, nodeVars, portVars>>

CommunicatePollSwallows == \E rc \in {0, 1} :
    /\ pc = "communicate" /\ proc = "running"
    /\ proc' = "none"
    /\ returncode' = rc
    /\ IF rc # 0
       THEN /\ stdout' = ErrorOutput
            /\ IF op \in {"wait_for_block", "wait_for_new_blocks", "wait_for_block_time"}
               THEN pc' = "call" /\ UNCHANGED result
               ELSE pc' = "done" /\ result' = ProcessError(frame)
       ELSE /\ stdout' \in Outputs(frame)
            /\ pc' = "ret"
            /\ UNCHANGED result
    /\ UNCHANGED <<op, frame, at, spawns, polls, waitVars, begin_height,
                   cur_height, now, tx_rsp, rawLogParsed, code_id>>
    /\ UNCHANGED <<argVars, rspVars, nodeVars, portVars>>

\* interact: proc.communicate() returns when the child has exited, then the
\* assert on proc.returncode; no caller catches the AssertionError
Communicate == \E rc \in {0, 1} :
    /\ pc = "communicate" /\ proc = "running"
    /\ proc' = "none"
    /\ returncode' = rc
    /\ IF rc # 0
       THEN /\ stdout' = ErrorOutput
            /\ pc' = "done"
            /\ result' = ProcessError(frame)
       ELSE /\ stdout' \in Outputs(frame)
            /\ pc' = "ret"
            /\ UNCHANGED result
    /\ UNCHANGED <<op, frame, at, spawns, polls, waitVars, begin_height,
                   cur_height, now, tx_rsp, rawLogParsed, code_id>>
    /\ UNCHANGED <<argVars, rspVars, nodeVars, portVars>>

\* the frame of a method that returns v (or raises) after its one call
Finish(v) ==
    /\ pc' = "done" /\ result' = v
    /\ UNCHANGED <<op, frame, at, proc, returncode, stdout, spawns, polls, waitVars,
                   begin_height, cur_height, now, tx_rsp, rawLogParsed, code_id>>
    /\ UNCHANGED <<argVars, rspVars, nodeVars, portVars>>

\* __call__ returns interact's output
InvokeReturn == pc = "ret" /\ frame = "invoke" /\ Finish(Ok(stdout))

\* status: json.loads(self("status"))
StatusReturn == pc = "ret" /\ op = "status" /\ Finish(json_loads(stdout))

\* address: self("keys", "show", name, "-a").strip().decode()
AddressReturn ==
    pc = "ret" /\ frame = "address" /\ Finish(Ok(PyStr(strip_ws(stdout.text))))

\* balances: {denom: int(amount)} of the balances list
BalancesReturn ==
    /\ pc = "ret" /\ frame = "balances"
    /\ LET bs == json_loads(stdout).val.balances
       IN  Finish(Ok([d \in {bs[j].denom : j \in 1..Len(bs)} |->
                        int(bs[CHOOSE j \in 1..Len(bs) :
                                   /\ bs[j].denom = d
                                   /\ \A m \in (j + 1)..Len(bs) : bs[m].denom # d].amount)]))

\* query: json.loads(...)["data"]
QueryReturn ==
    /\ pc = "ret" /\ frame = "query"
    /\ Finish(Ok(json_loads(stdout).val.data))


txUnchanged == <<op, at, proc, returncode, stdout, spawns, polls, wait_n, wait_timeout,
                 wait_t, wait_i, begin_height, cur_height, now>>

StoreReturnEventsFirst ==
    /\ pc = "ret" /\ frame = "store"
    /\ LET r  == json_loads(stdout).val
           ev == events(r)
       IN  /\ tx_rsp' = r
           /\ rawLogParsed' = TRUE
           /\ IF ~ev.ok
              THEN pc' = "done" /\ result' = ev /\ UNCHANGED <<frame, code_id>>
              ELSE IF code(r) # 0
              THEN /\ pc' = "done" /\ result' = Raise("AssertionError", r.raw_log)
                   /\ UNCHANGED <<frame, code_id>>
              ELSE LET id == int(ev.val[1]["code_id"])
                   IN  IF op = "construct"
                       THEN /\ code_id' = id /\ frame' = "instantiate" /\ pc' = "call"
                            /\ UNCHANGED result
                       ELSE /\ pc' = "done" /\ result' = Ok(PyInt(id))
                            /\ UNCHANGED <<frame, code_id>>
    /\ UNCHANGED <<txUnchanged, argVars, rspVars, nodeVars, portVars>>

\* store: Response(json.loads(...)); assert rsp.code == 0, rsp["raw_log"];
\* return int(rsp.events[0]["code_id"]).  Under construct the returned id
\* goes to instantiate, whose call is made next.
StoreReturn ==
    /\ pc = "ret" /\ frame = "store"
    /\ LET r == json_loads(stdout).val
       IN  /\ tx_rsp' = r
           /\ IF code(r) # 0
              THEN /\ rawLogParsed' = FALSE
                   /\ pc' = "done" /\ result' = Raise("AssertionError", r.raw_log)
                   /\ UNCHANGED <<frame, code_id>>
              ELSE /\ rawLogParsed' = TRUE
                   /\ LET id == int(events(r).val[1]["code_id"])
                      IN  IF op = "construct"
                          THEN /\ code_id' = id /\ frame' = "instantiate" /\ pc' = "call"
                               /\ UNCHANGED result
                          ELSE /\ pc' = "done" /\ result' = Ok(PyInt(id))
                               /\ UNCHANGED <<frame, code_id>>
    /\ UNCHANGED <<txUnchanged, argVars, rspVars, nodeVars, portVars>>

\* instantiate: assert rsp.code == 0, rsp["raw_log"];
\* return rsp.events[0]["contract_address"]
InstantiateReturn ==
    /\ pc = "ret" /\ frame = "instantiate"
    /\ LET r == json_loads(stdout).val
       IN  /\ tx_rsp' = r
           /\ pc' = "done"
           /\ IF code(r) # 0
              THEN rawLogParsed' = FALSE /\ result' = Raise("AssertionError", r.raw_log)
              ELSE rawLogParsed' = TRUE
                   /\ result' = Ok(PyStr(events(r).val[1]["contract_address"]))
    /\ UNCHANGED <<frame, code_id, txUnchanged, argVars, rspVars, nodeVars, portVars>>

\* execute: assert rsp.code == 0, rsp["raw_log"]; return rsp.events
ExecuteReturn ==
    /\ pc = "ret" /\ frame = "execute"
    /\ LET r == json_loads(stdout).val
       IN  /\ tx_rsp' = r
           /\ pc' = "done"
           /\ IF code(r) # 0
              THEN rawLogParsed' = FALSE /\ result' = Raise("AssertionError", r.raw_log)
              ELSE rawLogParsed' = TRUE /\ result' = Ok(PyList(events(r).val))
    /\ UNCHANGED <<frame, code_id, txUnchanged, argVars, rspVars, nodeVars, portVars>>

\* int(self.status()["SyncInfo"]["latest_block_height"])
StatusHeight == int(json_loads(stdout).val.SyncInfo.latest_block_height)

\* isoparse(json.loads(self("status"))["SyncInfo"]["latest_block_time"])
StatusTime == int(json_loads(stdout).val.SyncInfo.latest_block_time)

Polled == IF polls < MaxPolls THEN polls + 1 ELSE polls

pollUnchanged == <<op, frame, proc, returncode, stdout, spawns, wait_n, wait_timeout,
                   wait_t, tx_rsp, rawLogParsed, code_id>>

WaitForBlockPollStrict ==
    /\ pc = "ret" /\ op = "wait_for_block"
    /\ cur_height' = StatusHeight
    /\ polls' = Polled
    /\ IF cur_height' > wait_n
       THEN pc' = "done" /\ result' = Ok(None) /\ UNCHANGED wait_i
       ELSE IF wait_i + 1 < wait_timeout
       THEN pc' = "call" /\ wait_i' = wait_i + 1 /\ UNCHANGED result
       ELSE pc' = "done" /\ result' = TimeoutError(wait_n) /\ UNCHANGED wait_i
    /\ UNCHANGED <<pollUnchanged, at, begin_height, now, argVars, rspVars, nodeVars, portVars>>

\* wait_for_block: one iteration of "for i in range(timeout)" after its
\* status call returned: break, or sleep and go on, or the else branch
WaitForBlockPoll ==
    /\ pc = "ret" /\ op = "wait_for_block"
    /\ cur_height' = StatusHeight
    /\ polls' = Polled
    /\ IF cur_height' >= wait_n
       THEN pc' = "done" /\ result' = Ok(None) /\ UNCHANGED wait_i
       ELSE IF wait_i + 1 < wait_timeout
       THEN pc' = "call" /\ wait_i' = wait_i + 1 /\ UNCHANGED result
       ELSE pc' = "done" /\ result' = TimeoutError(wait_n) /\ UNCHANGED wait_i
    /\ UNCHANGED <<pollUnchanged, at, begin_height, now, argVars, rspVars, nodeVars, portVars>>

\* wait_for_new_blocks: begin_height = int(status height)
WaitForNewBlocksBegin ==
    /\ pc = "ret" /\ op = "wait_for_new_blocks" /\ at = "begin_height"
    /\ begin_height' = StatusHeight
    /\ polls' = Polled
    /\ at' = "cur_height" /\ pc' = "call"
    /\ UNCHANGED <<pollUnchanged, wait_i, cur_height, now, result>>
    /\ UNCHANGED <<argVars, rspVars, nodeVars, portVars>>

WaitForNewBlocksPollAbsolute ==
    /\ pc = "ret" /\ op = "wait_for_new_blocks" /\ at = "cur_height"
    /\ cur_height' = StatusHeight
    /\ polls' = Polled
    /\ IF cur_height' >= wait_n
       THEN pc' = "done" /\ result' = Ok(None)
       ELSE pc' = "call" /\ UNCHANGED result
    /\ UNCHANGED <<pollUnchanged, at, wait_i, begin_height, now>>
    /\ UNCHANGED <<argVars, rspVars, nodeVars, portVars>>

\* wait_for_new_blocks: one iteration of "while True" after its status call
WaitForNewBlocksPoll ==
    /\ pc = "ret" /\ op = "wait_for_new_blocks" /\ at = "cur_height"
    /\ cur_height' = StatusHeight
    /\ polls' = Polled
    /\ IF cur_height' - begin_height >= wait_n
       THEN pc' = "done" /\ result' = Ok(None)
       ELSE pc' = "call" /\ UNCHANGED result
    /\ UNCHANGED <<pollUnchanged, at, wait_i, begin_height, now>>
    /\ UNCHANGED <<argVars, rspVars, nodeVars, portVars>>

\* wait_for_block_time: one iteration of "while True" after its status call
WaitForBlockTimePoll ==
    /\ pc = "ret" /\ op = "wait_for_block_time"
    /\ now' = StatusTime
    /\ polls' = Polled
    /\ IF now' >= wait_t
       THEN pc' = "done" /\ result' = Ok(None)
       ELSE pc' = "call" /\ UNCHANGED result
    /\ UNCHANGED <<pollUnchanged, at, wait_i, begin_height, cur_height>>
    /\ UNCHANGED <<argVars, rspVars, nodeVars, portVars>>

\* the operation has returned or raised; the scenario goes on
Return ==
    /\ pc = "done"
    /\ op' = "idle" /\ frame' = "" /\ at' = "" /\ pc' = "idle" /\ proc' = "none"
    /\ returncode' = 0 /\ stdout' = NoOutput /\ spawns' = 0 /\ polls' = 0
    /\ wait_n' = 0 /\ wait_timeout' = 0 /\ wait_t' = 0 /\ wait_i' = 0
    /\ begin_height' = 0 /\ cur_height' = 0 /\ now' = 0
    /\ tx_rsp' = NoResponse /\ rawLogParsed' = FALSE /\ code_id' = 0
    /\ result' = NoResult
    /\ UNCHANGED <<argVars, rspVars, nodeVars, portVars>>

Next ==
    \/ NewBlock
    \/ CallInvoke \/ CallStatus \/ CallAddress \/ CallBalances
    \/ CallStore \/ CallInstantiate \/ CallConstruct \/ CallExecute \/ CallQuery
    \/ CallWaitForBlock \/ CallWaitForNewBlocks \/ CallWaitForBlockTime
    \/ Popen \/ Communicate
    \/ InvokeReturn \/ StatusReturn \/ AddressReturn \/ BalancesReturn \/ QueryReturn
    \/ StoreReturn \/ InstantiateReturn \/ ExecuteReturn
    \/ WaitForBlockPoll \/ WaitForNewBlocksBegin \/ WaitForNewBlocksPoll
    \/ WaitForBlockTimePoll
    \/ Return

Spec == Init /\ [][Next]_vars

\* the interpreter runs the driver's next statement and a spawned child exits
FairSpec ==
    /\ Spec
    /\ WF_vars(Popen) /\ WF_vars(Communicate)
    /\ WF_vars(WaitForNewBlocksBegin) /\ WF_vars(WaitForNewBlocksPoll)

\* ------------------------------------------------------------------------
\* wait_for_port.  Time is counted in ticks of 0.1 s, the sleep of the loop.
\* ------------------------------------------------------------------------
SleepTicks == 1

InitPort ==
    /\ ArgsIdle /\ RspIdle /\ DrvIdle /\ NodeIdle
    /\ p_open = FALSE
    /\ p_timeout \in 1..MaxPortTimeout
    /\ p_start = 0 /\ p_now = 0
    /\ p_pc = "connect"
    /\ p_result = NoResult

portUnchanged == <<argVars, rspVars, nodeVars, drvVars>>

\* the node under start-up begins to listen
PortOpens ==
    /\ ~p_open /\ p_pc # "done"
    /\ p_open' = TRUE
    /\ UNCHANGED <<p_timeout, p_start, p_now, p_pc, p_result, portUnchanged>>

\* socket.create_connection((host, port), timeout=timeout) succeeds: break
Connect ==
    /\ p_pc = "connect" /\ p_open
    /\ p_pc' = "done" /\ p_result' = Ok(None)
    /\ UNCHANGED <<p_open, p_timeout, p_start, p_now, portUnchanged>>

\* socket.create_connection((host, port), timeout=timeout) raises OSError
\* after d ticks: refused at once, or anything up to the socket timeout,
\* which is the whole timeout again at every attempt
ConnectFails == \E d \in 0..p_timeout :
    /\ p_pc = "connect" /\ ~p_open
    /\ p_now' = p_now + d
    /\ p_pc' = "except"
    /\ UNCHANGED <<p_open, p_timeout, p_start, p_result, portUnchanged>>

\* except OSError: time.sleep(0.1), then the test of the elapsed time
Except ==
    /\ p_pc = "except"
    /\ p_now' = p_now + SleepTicks
    /\ IF p_now' - p_start >= p_timeout
       THEN p_pc' = "done" /\ p_result' = Raise("TimeoutError", [what |-> "port"])
       ELSE p_pc' = "connect" /\ UNCHANGED p_result
    /\ UNCHANGED <<p_open, p_timeout, p_start, portUnchanged>>

NextPort == PortOpens \/ Connect \/ ConnectFails \/ Except

SpecPort == InitPort /\ [][NextPort]_vars

\* ------------------------------------------------------------------------
\* Claims about the argument builder and the defaults of __call__
\* ------------------------------------------------------------------------

\* the defaults __call__ is to add for a subcommand, as a table
DefaultsTable(cmd) ==
    {[k |-> K_home, v |-> self.home]}
    \cup (IF cmd \in {S_tx, S_status, S_query}
          THEN {[k |-> K_node, v |-> self.node]} ELSE {})
    \cup (IF cmd = S_tx THEN {[k |-> K_chain_id, v |-> self.chain_id]} ELSE {})
    \cup (IF cmd \in {S_tx, S_keys}
          THEN {[k |-> K_keyring_backend, v |-> PyStr(S_test)]} ELSE {})
    \cup (IF cmd = S_query THEN {[k |-> K_output, v |-> PyStr(S_json)]} ELSE {})

\* C2: __call__ passes every caller-supplied option on unchanged, and the
\* options it adds are exactly the subcommand's defaults the caller did not
\* supply (home always; node for tx, status, query; chain_id for tx;
\* keyring_backend=test for tx and keys; output=json for query).
C2_DefaultsCallerWins ==
    (a_fn = "__call__" /\ a_done) =>
        /\ Len(a_merged) >= Len(a_kwargs)
        /\ \A i \in 1..Len(a_kwargs) : a_merged[i] = a_kwargs[i]
        /\ DistinctKeys(a_merged)
        /\ {a_merged[i] : i \in (Len(a_kwargs) + 1)..Len(a_merged)}
             = {d \in DefaultsTable(a_cmd) : ~HasKey(a_kwargs, d.k)}

C2_Witness ==
    /\ a_fn = "__call__" /\ a_done /\ a_cmd = S_tx
    /\ HasKey(a_kwargs, K_node) /\ Get(a_merged, K_node) = PyStr(<<"u">>)
    /\ HasKey(a_kwargs, K_home) /\ Get(a_merged, K_home) = None
    /\ HasKey(a_merged, K_chain_id) /\ HasKey(a_merged, K_keyring_backend)

HasSpaceChar(s) == \E i \in 1..Len(s) : s[i] = " "

\* C3: a positional argument is wrapped in quotes if it contains a space
\* character and is passed unwrapped if it contains none.
C3_QuotedIffSpace ==
    (a_fn = "build_cli_args_safe" /\ a_done) =>
        LET kept == SelectSeq(a_args, Truthy)
        IN  \A i \in 1..Len(kept) :
                a_tokens[i] = IF HasSpaceChar(str(kept[i]))
                              THEN Quote(str(kept[i])) ELSE str(kept[i])

\* the inputs build_cli_args_safe was called with
BuiltArgs == IF a_fn = "__call__" THEN <<PyStr(a_cmd)>> \o a_args ELSE a_args
BuiltKwargs == IF a_fn = "__call__" THEN a_merged ELSE a_kwargs

\* the flag of each option name, as a table
FlagOf(k) ==
    CASE k = K_home -> <<"-", "-", "h", "o", "m", "e">>
      [] k = K_node -> <<"-", "-", "n", "o", "d", "e">>
      [] k = K_chain_id -> <<"-", "-", "c", "h", "a", "i", "n", "-", "i", "d">>
      [] k = K_keyring_backend ->
           <<"-", "-", "k", "e", "y", "r", "i", "n", "g", "-", "b", "a", "c", "k", "e", "n", "d">>
      [] k = K_output -> <<"-", "-", "o", "u", "t", "p", "u", "t">>
      [] k = K_from_ -> <<"-", "-", "f", "r", "o", "m">>
      [] k = K_gas -> <<"-", "-", "g", "a", "s">>

IsValueToken(tok, v) == tok = str(v) \/ tok = Quote(str(v))

NotNone(kv) == kv.v # None

\* C4: the tokens are the kept positional values in caller order, then one
\* "--flag value" pair per keyword option whose value is not None, in the
\* options' order; an option whose value is None contributes nothing.
C4_TokenOrder ==
    a_done =>
        LET kept == SelectSeq(BuiltArgs, Truthy)
            opts == SelectSeq(BuiltKwargs, NotNone)
            np   == Len(kept)
        IN  /\ Len(a_tokens) = np + 2 * Len(opts)
            /\ \A i \in 1..np : IsValueToken(a_tokens[i], kept[i])
            /\ \A j \in 1..Len(opts) :
                  /\ a_tokens[np + 2 * j - 1] = FlagOf(opts[j].k)
                  /\ IsValueToken(a_tokens[np + 2 * j], opts[j].v)

C4_Witness ==
    /\ a_fn = "build_cli_args_safe" /\ a_done
    /\ Len(a_args) = 2 /\ Truthy(a_args[1]) /\ Truthy(a_args[2])
    /\ a_args[1] # a_args[2]
    /\ Len(a_kwargs) = 2 /\ a_kwargs[1].v = None /\ a_kwargs[2].v # None
    /\ Len(a_tokens) = 4

\* ------------------------------------------------------------------------
\* The response decoder applied to bounded transaction results
\* ------------------------------------------------------------------------
Attrs == {[key |-> "k1", value |-> "v1"], [key |-> "k1", value |-> "v2"],
          [key |-> "k2", value |-> "v1"]}

Events == {[type |-> "message", attributes |-> a] : a \in SeqsUpTo(Attrs, MaxAttrs)}

FirstMessages(maxEvents) == {[events |-> e] : e \in SeqsUpTo(Events, maxEvents)}

LaterMessages ==
    {[events |-> <<>>],
     [events |-> <<[type |-> "transfer",
                    attributes |-> <<[key |-> "k2", value |-> "v2"]>>]>>]}

Responses(m, rest) ==
    {[raw_log |-> JsonText(<<m>> \o rest)],
     [code |-> 0, raw_log |-> JsonText(<<m>> \o rest)]}

FailedResponse == [code |-> 5, raw_log |-> OutOfGas]

InitRsp ==
    /\ ArgsIdle /\ DrvIdle /\ NodeIdle /\ PortIdle
    /\ \/ \E m \in FirstMessages(MaxEvents), rest \in SeqsUpTo(LaterMessages, MaxMsgs - 1) :
              r_rsp \in Responses(m, rest)
       \/ r_rsp = FailedResponse
    /\ r_events = NotRead /\ r_code = 0 /\ r_done = "no"

\* rsp.code
ReadCode ==
    /\ r_done = "no"
    /\ r_code' = code(r_rsp)
    /\ r_done' = "code"
    /\ UNCHANGED <<r_rsp, r_events>>
    /\ UNCHANGED <<argVars, nodeVars, drvVars, portVars>>

\* rsp.events
ReadEvents ==
    /\ r_done = "no"
    /\ r_events' = events(r_rsp)
    /\ r_code' = code(r_rsp)
    /\ r_done' = "events"
    /\ UNCHANGED r_rsp
    /\ UNCHANGED <<argVars, nodeVars, drvVars, portVars>>

NextRsp == ReadCode \/ ReadEvents

SpecRsp == InitRsp /\ [][NextRsp]_vars

\* the value of the last attribute of attrs whose key is k
LastValue(attrs, k) ==
    LET last == CHOOSE i \in 1..Len(attrs) :
                    /\ attrs[i].key = k
                    /\ \A j \in (i + 1)..Len(attrs) : attrs[j].key # k
    IN  attrs[last].value

\* C5: for a successful result (code 0 or absent), events is one mapping per
\* event of the first logged message, in log order; each mapping has the
\* event's attribute keys and sends a key to the value of its last occurrence.
C5_EventsOfFirstMessage ==
    (r_done = "events" /\ r_code = 0) =>
        LET evts == r_rsp.raw_log.value[1].events
        IN  /\ r_events.ok
            /\ Len(r_events.val) = Len(evts)
            /\ \A i \in 1..Len(evts) :
                  /\ DOMAIN r_events.val[i]
                       = {evts[i].attributes[j].key : j \in 1..Len(evts[i].attributes)}
                  /\ \A k \in DOMAIN r_events.val[i] :
                        r_events.val[i][k] = LastValue(evts[i].attributes, k)

C5_Witness ==
    /\ r_done = "events" /\ r_events.ok /\ Len(r_events.val) = 2
    /\ Len(r_rsp.raw_log.value) = 2
    /\ r_rsp.raw_log.value[2].events # <<>>
    /\ r_events.val[1] # r_events.val[2]
    /\ Len(r_rsp.raw_log.value[1].events[1].attributes) = 2
    /\ Cardinality(DOMAIN r_events.val[1]) = 1
    /\ r_events.val[1]["k1"] = "v2"

\* ------------------------------------------------------------------------
\* Claims about the driver operations and the polling primitives
\* ------------------------------------------------------------------------
TxFrames == {"store", "instantiate", "execute"}

\* C1: when the node's response has a nonzero code, store, instantiate and
\* execute fail with the response's raw_log as the error text, and raw_log is
\* never parsed as JSON (events is never read).
C1_FailsFastWithRawLog ==
    /\ code(tx_rsp) # 0 => ~rawLogParsed
    /\ (pc = "done" /\ frame \in TxFrames /\ returncode = 0 /\ code(tx_rsp) # 0) =>
           result = Raise("AssertionError", tx_rsp.raw_log)

C1_Witness ==
    /\ pc = "done" /\ op = "construct" /\ frame = "instantiate"
    /\ returncode = 0 /\ code(tx_rsp) = 5 /\ tx_rsp.raw_log = OutOfGas
    /\ ~result.ok /\ ~rawLogParsed

\* C6: wait_for_block returns normally as soon as a status poll reports a
\* height >= n; it makes at most timeout polls, and when none of them
\* reports such a height it raises the TimeoutError naming n.
C6_WaitForBlockBounded ==
    op = "wait_for_block" =>
        /\ wait_i = 0 \/ wait_i < wait_timeout
        /\ polls <= wait_i + 1
        /\ (pc \in {"call", "communicate"} /\ polls > 0) => cur_height < wait_n
        /\ (pc = "done" /\ returncode = 0) =>
              IF polls > 0 /\ cur_height >= wait_n
              THEN result = Ok(None)
              ELSE /\ result = TimeoutError(wait_n)
                   /\ result.msg.n = wait_n
                   /\ polls = wait_timeout

C6_Witness ==
    /\ op = "wait_for_block" /\ pc = "done" /\ returncode = 0
    /\ wait_timeout = 2 /\ wait_n = 2 /\ polls = 2 /\ cur_height = 1
    /\ result = TimeoutError(2)

SingleCallOps ==
    {"invoke", "status", "address", "balances", "store", "instantiate", "execute", "query"}

\* C8 as stated: every driver operation, construct included, spawns at most
\* one child process.
C8_AtMostOneSpawn ==
    op \in SingleCallOps \cup {"construct"} => spawns <= 1

\* C8 as amended: every driver operation other than construct spawns at most
\* one child process, construct spawns at most two (store, then instantiate),
\* one after the other, and no child is left running when a call returns.
C8_SpawnsPerOperation ==
    /\ op \in SingleCallOps => spawns <= 1
    /\ op = "construct" => (spawns <= 2 /\ (spawns = 2 => frame = "instantiate"))
    /\ pc \in {"idle", "call", "ret", "done"} => proc = "none"
    /\ (op \in SingleCallOps \cup {"construct"} /\ pc \in {"ret", "done"}) => spawns >= 1

C8_Witness ==
    /\ op = "construct" /\ pc = "done" /\ result.ok /\ spawns = 2 /\ proc = "none"

\* C9: a nonzero exit of the CLI is never retried: it ends the operation with
\* the error that carries the output and the command line, and a further
\* process is spawned only after a call that succeeded (by a polling loop
\* whose condition is not met yet, or by construct going on to instantiate).
C9_NoRetryOnProcessFailure ==
    /\ returncode # 0 =>
          /\ pc = "done" /\ proc = "none"
          /\ result = ProcessError(frame)
          /\ result.msg.output = stdout /\ result.msg.cmd = Cmd(frame)
    /\ (pc = "call" /\ spawns > 0) =>
          /\ returncode = 0
          /\ \/ op = "construct" /\ frame = "instantiate"
             \/ op = "wait_for_block" /\ cur_height < wait_n
             \/ op = "wait_for_new_blocks"
                  /\ (polls = 1 \/ cur_height - begin_height < wait_n)
             \/ op = "wait_for_block_time" /\ now < wait_t

C9_Witness ==
    /\ op = "wait_for_block" /\ pc = "done" /\ returncode # 0 /\ spawns = 2
    /\ polls = 1 /\ ~result.ok

C10_Safety ==
    op = "wait_for_new_blocks" =>
        /\ cur_height <= height
        /\ result.ok \/ result.err \in {"Running", "AssertionError"}
        /\ (pc = "done" /\ returncode = 0) =>
              /\ result = Ok(None)
              /\ polls >= 2
              /\ cur_height - begin_height >= wait_n
        /\ (pc \in {"call", "communicate"} /\ polls >= 2) =>
              cur_height - begin_height < wait_n

C10_Advanced ==
    /\ op = "wait_for_new_blocks" /\ at = "cur_height"
    /\ height - begin_height >= wait_n

\* C10: wait_for_new_blocks returns only after a poll later than the one that
\* read begin_height reports a height >= begin_height + n, it never raises a
\* timeout, and once the node's height has advanced by n it does return.
C10_WaitForNewBlocks ==
    /\ []C10_Safety
    /\ [](C10_Advanced => <>(pc = "done"))

C10_Witness ==
    /\ op = "wait_for_new_blocks" /\ pc = "done" /\ result = Ok(None)
    /\ wait_n = 2 /\ polls = MaxPolls /\ cur_height - begin_height = 2

\* ------------------------------------------------------------------------
\* Claim about wait_for_port
\* ------------------------------------------------------------------------

\* "approximately": one sleep of the loop and one tick more
PortTolerance == SleepTicks + 1

\* C7: against a port that never opens, wait_for_port raises its timeout
\* error within approximately timeout after the start of the call, whatever
\* the duration of each connection attempt.
C7_TimeoutWithinBound ==
    (p_pc = "done" /\ ~p_result.ok /\ ~p_open) =>
        p_now - p_start <= p_timeout + PortTolerance

====
